---- MODULE Spec2Model ----
(***************************************************************************)
(* Session gate and credential vault of the desktop chat client.           *)
(*                                                                         *)
(* src/main.py (ChatApp) and src/ui/components.py (AuthScreen, PinScreen)  *)
(* are modelled from their code.  utils/cache.py (ChatCache, the vault)    *)
(* and api/openrouter.py (the API client) are not part of the sources at   *)
(* hand: the vault follows section 4.1 of the specification, the client's  *)
(* get_balance is a nondeterministic outcome.                              *)
(*                                                                         *)
(* Execution model.  The UI client sends clicks to the Python side, where  *)
(* they are dispatched in arrival order; a handler runs to its end before  *)
(* the next is dispatched, except validate_api_key, which blocks in the    *)
(* network call get_balance (pc = "validating").  A click is made on what  *)
(* the page shows when it is made and is handled later (events).  A click  *)
(* on a control of a screen that has since been removed from page.controls *)
(* is discarded; dialogs stay in page.overlay, so their buttons' handlers  *)
(* run even after the dialog was closed.  A modal dialog covers what is    *)
(* below it: only the topmost open dialog can be clicked.                  *)
(***************************************************************************)
EXTENDS Integers, Sequences, FiniteSets, TLC

\* ------------------------------------------------------------------ bounds
\* Clicks that may be in flight (made, not yet handled) at one time.
MaxInflight == 2
\* Dialogs appended to page.overlay during one process lifetime.
MaxDialogs == 3

\* ------------------------------------------------------------------- data
Digits == {"0", "1", "2", "3", "4", "5", "6", "7", "8", "9"}

\* Keys the user may type; ValidKeys are those the API accepts.
ValidKeys == {"sk-test", "sk-live"}
Keys == ValidKeys \cup {"sk-bad"}
NoKey == ""
KeyInputs == Keys \cup {NoKey}

\* The PINs random.randint may produce (a sample of the 10^4).
PinPool == { <<"4", "8", "2", "1">>, <<"0", "0", "0", "0">> }
NoPin == << >>
\* What may stand in pin_field (max_length = 4) when the login button is clicked.
PinInputs == PinPool \cup { NoPin, <<"1", "2">>, <<"1", "2", "a", "4">>,
                            <<"9", "9", "9", "9">> }

\* Value get_balance returns for a key the API rejects or cannot check
\* (the Russian word for "Error" in the source).
BalanceError == "Error"
BalanceOk == "$1.00"

\* --------------------------------------------------------------- the vault
\* One-way verifier derived from a PIN (section 4.1).
Verifier(pin) == <<"verifier", pin>>

NoRecord == [present |-> FALSE, api_key |-> NoKey, pin_verifier |-> << >>]

Record(api_key, pin) ==
    [present |-> TRUE, api_key |-> api_key, pin_verifier |-> Verifier(pin)]

StoreResults == {"ok", "false", "raise"}

\* A store that fails half way: the key is replaced, the verifier is not.
store_credential_torn(v, api_key, pin, result) ==
    IF result = "ok" THEN Record(api_key, pin)
    ELSE IF v.present THEN [v EXCEPT !.api_key = api_key] ELSE v

\* ChatCache.save_auth_data: the whole record is written, or nothing is.
store_credential(v, api_key, pin, result) ==
    IF result = "ok" THEN Record(api_key, pin) ELSE v

\* ChatCache.has_auth_data
has_credential(v) == v.present

\* ChatCache.check_pin
verify_pin(v, candidate) == v.present /\ v.pin_verifier = Verifier(candidate)

\* ChatCache.get_api_key
get_api_key(v) == IF v.present THEN v.api_key ELSE NoKey

\* ChatCache.reset_auth_data
reset(v) == NoRecord

\* ------------------------------------------------------------------- state
VARIABLES
    vault,                     \* the persisted Credential Record
    is_authenticated,          \* ChatApp.is_authenticated
    page_controls,             \* the screen in page.controls
    api_client_key,            \* api_client.api_key
    validate_button_disabled,  \* AuthScreen.validate_button.disabled
    auth_status,               \* AuthScreen.status_text.value
    pin_status,                \* PinScreen.status_text.value
    dialogs,                   \* page.overlay: the dialogs, oldest first
    events,                    \* clicks in flight, oldest first
    pc,                        \* "idle", or "validating" inside get_balance
    pending,                   \* locals of the blocked validate_api_key
    last,                      \* history: the last step taken
    issued,                    \* history: arguments of the last successful store
    validated                  \* history: a validated key was stored since the last reset

vars == <<vault, is_authenticated, page_controls, api_client_key,
          validate_button_disabled, auth_status, pin_status, dialogs, events,
          pc, pending, last, issued, validated>>

\* The transcript store and the chat screen (ChatApp after authentication).
VARIABLES
    transcript,                \* the persisted Transcript Entries, oldest first
    next_id,                   \* the sequence id the store assigns next
    assigned,                  \* history: the sequence ids assigned so far
    model_dropdown_value,      \* ChatApp.model_dropdown.value
    sends,                     \* send_message calls awaiting the API response
    chat_last                  \* history: the last chat step and what it put out

chat_vars ==
    <<transcript, next_id, assigned, model_dropdown_value, sends, chat_last>>

all_vars == <<vars, chat_vars>>

\* available_models of the API client; the first one is selected at start.
Models == << <<"g", "p", "t">>, <<"c", "l">> >>

\* A history entry of the chat screen: the step, its outcome, the entry id it
\* stored (0 when none) and what it wrote or displayed.
ChatStep(op, result, id, out) ==
    [op |-> op, result |-> result, id |-> id, out |-> out]

\* The chat screen before anything was done on it, on an empty store.
ChatIdle ==
    /\ transcript = << >>
    /\ next_id = 1
    /\ assigned = {}
    /\ model_dropdown_value = Models[1]
    /\ sends = << >>
    /\ chat_last = ChatStep("none", "", 0, << >>)

NoPending == [api_key |-> NoKey, original_key |-> NoKey, from |-> "none"]

\* A history entry: the step, its outcome, the Session State it began in and
\* the PIN it was given.
Step(op, result, from, pin) ==
    [op |-> op, result |-> result, from |-> from, pin |-> pin]

\* ------------------------------------------------------- the Session State
OpenDialogs(kind) ==
    {i \in 1..Len(dialogs) : dialogs[i].open /\ dialogs[i].kind = kind}

\* Index of the topmost open dialog, 0 when none is open.
TopDialog ==
    LET open == {i \in 1..Len(dialogs) : dialogs[i].open}
    IN  IF open = {} THEN 0 ELSE CHOOSE i \in open : \A j \in open : j <= i

\* The Session State of section 3, read off the program's state.
GateState ==
    IF is_authenticated THEN "Authenticated"
    ELSE IF page_controls = "pin" THEN "Locked"
    ELSE IF pc = "validating" THEN "PendingValidation"
    ELSE IF OpenDialogs("pin") # {} THEN "PinIssued"
    ELSE "NoCredential"

\* ------------------------------------------------------------------ launch
\* The screen ChatApp.main puts on the page.
first_screen_inverted(v) == IF has_credential(v) THEN "auth" ELSE "pin"

first_screen(v) == IF has_credential(v) THEN "pin" ELSE "auth"

\* ChatApp.__init__ and ChatApp.main on a vault v.
Launched(v) ==
    /\ is_authenticated' = FALSE
    /\ page_controls' = first_screen(v)
    /\ api_client_key' = NoKey
    /\ validate_button_disabled' = FALSE
    /\ auth_status' = ""
    /\ pin_status' = ""
    /\ dialogs' = << >>
    /\ events' = << >>
    /\ pc' = "idle"
    /\ pending' = NoPending

Init ==
    /\ vault \in {NoRecord} \cup {Record(k, p) : k \in ValidKeys, p \in PinPool}
    /\ is_authenticated = FALSE
    /\ page_controls = first_screen(vault)
    /\ api_client_key = NoKey
    /\ validate_button_disabled = FALSE
    /\ auth_status = ""
    /\ pin_status = ""
    /\ dialogs = << >>
    /\ events = << >>
    /\ pc = "idle"
    /\ pending = NoPending
    /\ last = Step("launch", "", "none", NoPin)
    /\ issued = IF vault.present
                THEN [present |-> TRUE, api_key |-> vault.api_key,
                      pin |-> CHOOSE p \in PinPool : Verifier(p) = vault.pin_verifier]
                ELSE [present |-> FALSE, api_key |-> NoKey, pin |-> NoPin]
    /\ validated = vault.present
    /\ ChatIdle

\* The process is ended and started again; only the vault survives.
Launch ==
    /\ Launched(vault)
    /\ last' = Step("launch", "", GateState, NoPin)
    /\ UNCHANGED <<vault, issued, validated>>

\* ------------------------------------------------------------------ clicks
Event(type, key, pin, dlg) ==
    [type |-> type, key |-> key, pin |-> pin, dlg |-> dlg]

\* Dialogs that exist or that a click in flight may still open.
DialogsClaimed ==
    Len(dialogs)
    + Cardinality({i \in 1..Len(events) :
                     events[i].type \in {"validate_api_key", "confirm_reset_api_key"}})

Click(ev) ==
    /\ Len(events) < MaxInflight
    /\ events' = Append(events, ev)
    /\ UNCHANGED <<vault, is_authenticated, page_controls, api_client_key,
                   validate_button_disabled, auth_status, pin_status, dialogs,
                   pc, pending, last, issued, validated>>

\* AuthScreen.validate_button, on_click = validate_api_key.
ClickValidateKey ==
    /\ TopDialog = 0
    /\ page_controls = "auth"
    /\ ~validate_button_disabled
    /\ DialogsClaimed < MaxDialogs
    /\ \E key \in KeyInputs : Click(Event("validate_api_key", key, NoPin, 0))

\* PinScreen.validate_button, on_click = validate_pin.
ClickValidatePin ==
    /\ TopDialog = 0
    /\ page_controls = "pin"
    /\ \E pin \in PinInputs : Click(Event("validate_pin", NoKey, pin, 0))

\* PinScreen.reset_button, on_click = confirm_reset_api_key.
ClickReset ==
    /\ TopDialog = 0
    /\ page_controls = "pin"
    /\ DialogsClaimed < MaxDialogs
    /\ Click(Event("confirm_reset_api_key", NoKey, NoPin, 0))

\* The button of the PIN dialog, on_click = close_dialog.
ClickAcknowledge ==
    /\ TopDialog # 0
    /\ dialogs[TopDialog].kind = "pin"
    /\ Click(Event("acknowledge", NoKey, NoPin, TopDialog))

\* The two buttons of the reset dialog.
ClickResetCancel ==
    /\ TopDialog # 0
    /\ dialogs[TopDialog].kind = "reset"
    /\ Click(Event("reset_cancel", NoKey, NoPin, TopDialog))

ClickResetConfirm ==
    /\ TopDialog # 0
    /\ dialogs[TopDialog].kind = "reset"
    /\ Click(Event("reset_confirmed", NoKey, NoPin, TopDialog))

\* The event the Python side dispatches next.
Dispatch(type) ==
    /\ pc = "idle"
    /\ events # << >>
    /\ Head(events).type = type
    /\ events' = Tail(events)

\* The screen a click was made on.
ScreenOf(type) ==
    IF type = "validate_api_key" THEN "auth"
    ELSE IF type \in {"validate_pin", "confirm_reset_api_key"} THEN "pin"
    ELSE "overlay"

\* A click on a control that is no longer on the page has no handler to run.
DropStaleEvent ==
    /\ pc = "idle"
    /\ events # << >>
    /\ ScreenOf(Head(events).type) \notin {"overlay", page_controls}
    /\ events' = Tail(events)
    /\ last' = Step("dropped", Head(events).type, GateState, NoPin)
    /\ UNCHANGED <<vault, is_authenticated, page_controls, api_client_key,
                   validate_button_disabled, auth_status, pin_status, dialogs,
                   pc, pending, issued, validated>>

\* ------------------------------------------------------ ChatApp's callbacks
\* ChatApp.main.on_auth_success, with initialize_main_interface.
on_auth_success ==
    /\ is_authenticated' = TRUE
    /\ page_controls' = "main"

\* ChatApp.main.on_api_key_validated
on_api_key_validated ==
    /\ api_client_key' = IF get_api_key(vault) # NoKey
                         THEN get_api_key(vault) ELSE api_client_key
    /\ on_auth_success

\* The callback with the flag set the wrong way round.
on_reset_api_key_flag_set ==
    /\ is_authenticated' = TRUE
    /\ page_controls' = "auth"
    /\ validate_button_disabled' = FALSE
    /\ auth_status' = ""

\* ChatApp.main.on_reset_api_key: a fresh AuthScreen replaces the page.
on_reset_api_key ==
    /\ is_authenticated' = FALSE
    /\ page_controls' = "auth"
    /\ validate_button_disabled' = FALSE
    /\ auth_status' = ""

\* -------------------------------------------------------------- AuthScreen
\* show_error that leaves the button disabled.
AuthScreen_show_error_stuck(message) ==
    /\ auth_status' = message
    /\ validate_button_disabled' = validate_button_disabled

\* AuthScreen.show_error
AuthScreen_show_error(message) ==
    /\ auth_status' = message
    /\ validate_button_disabled' = FALSE

AuthErrors == {"empty key", "invalid key", "save failed", "exception"}

\* AuthScreen.show_pin_dialog: the dialog is opened, nothing else happens
\* until its button is clicked.
show_pin_dialog(pin) ==
    dialogs' = Append(dialogs, [kind |-> "pin", pin |-> pin, open |-> TRUE])

\* AuthScreen.validate_api_key up to the call of get_balance.
validate_api_key(api_key) ==
    /\ IF api_key = NoKey
       THEN /\ AuthScreen_show_error("empty key")
            /\ last' = Step("validate_api_key", "empty key", GateState, NoPin)
            /\ UNCHANGED <<pc, pending, api_client_key>>
       ELSE /\ validate_button_disabled' = TRUE
            /\ auth_status' = "checking"
            /\ pending' = [api_key |-> api_key, original_key |-> api_client_key,
                           from |-> GateState]
            /\ api_client_key' = api_key
            /\ pc' = "validating"
            /\ last' = Step("validate_api_key", "pending", GateState, NoPin)
    /\ UNCHANGED <<vault, is_authenticated, page_controls, pin_status, dialogs,
                   issued, validated>>

Raised == "raise"

\* What api_client.get_balance may do for a key.
get_balance(key) ==
    IF key \in ValidKeys THEN {BalanceOk, BalanceError, Raised}
    ELSE {BalanceError, Raised}

\* The check taken out: every balance counts as a valid key.
key_rejected_never(balance) == FALSE

\* The test of the balance in validate_api_key.
key_rejected(balance) == balance = BalanceError

\* AuthScreen.validate_api_key from the return of get_balance on: balance is
\* what get_balance did, pin the PIN drawn, saved what save_auth_data did.
validate_api_key_returns(balance, pin, saved) ==
    LET key == pending.api_key
        unsaved == UNCHANGED <<vault, dialogs, issued, validated>>
        done(result, p) ==
            last' = Step("validate_api_key_returns", result, pending.from, p)
    IN  /\ pc' = "idle"
        /\ pending' = NoPending
        /\ UNCHANGED <<is_authenticated, page_controls, pin_status>>
        /\ IF balance = Raised
           THEN /\ AuthScreen_show_error("exception")
                /\ api_client_key' = api_client_key
                /\ unsaved
                /\ done("exception", NoPin)
           ELSE IF key_rejected(balance)
           THEN /\ AuthScreen_show_error("invalid key")
                /\ api_client_key' = pending.original_key
                /\ unsaved
                /\ done("invalid key", NoPin)
           ELSE /\ vault' = store_credential(vault, key, pin, saved)
                /\ issued' = IF saved = "ok"
                             THEN [present |-> TRUE, api_key |-> key, pin |-> pin]
                             ELSE issued
                /\ validated' = IF saved = "ok" /\ balance = BalanceOk
                                THEN TRUE ELSE validated
                /\ IF saved = "ok"
                   THEN /\ show_pin_dialog(pin)
                        /\ UNCHANGED <<auth_status, validate_button_disabled,
                                       api_client_key>>
                        /\ done("stored", pin)
                   ELSE IF saved = "false"
                   THEN /\ AuthScreen_show_error("save failed")
                        /\ api_client_key' = pending.original_key
                        /\ dialogs' = dialogs
                        /\ done("save failed", NoPin)
                   ELSE /\ AuthScreen_show_error("exception")
                        /\ api_client_key' = api_client_key
                        /\ dialogs' = dialogs
                        /\ done("exception", NoPin)

\* AuthScreen.show_pin_dialog.close_dialog, the handler of the dialog's button.
pin_dialog_close(dlg) ==
    /\ dialogs' = [dialogs EXCEPT ![dlg].open = FALSE]
    /\ on_api_key_validated
    /\ last' = Step("acknowledge", "", GateState, dialogs[dlg].pin)
    /\ UNCHANGED <<vault, validate_button_disabled, auth_status, pin_status,
                   pc, pending, issued, validated>>

\* --------------------------------------------------------------- PinScreen
\* PinScreen.show_error
PinScreen_show_error(message) == pin_status' = message

\* The three checks validate_pin makes before it asks the vault; "" when the
\* PIN passes them.
PinFormatError(pin) ==
    IF pin = NoPin THEN "empty"
    ELSE IF Len(pin) # 4 THEN "length"
    ELSE IF \E i \in 1..Len(pin) : pin[i] \notin Digits THEN "digits"
    ELSE ""

\* validate_pin that does not look at what check_pin answered.
validate_pin_unchecked(pin) ==
    /\ on_auth_success
    /\ last' = Step("validate_pin", "valid", GateState, pin)
    /\ UNCHANGED <<vault, api_client_key, validate_button_disabled, auth_status,
                   pin_status, dialogs, pc, pending, issued, validated>>

\* validate_pin with the answer of check_pin taken the wrong way round.
validate_pin_inverted(pin) ==
    /\ IF PinFormatError(pin) # ""
       THEN /\ PinScreen_show_error(PinFormatError(pin))
            /\ last' = Step("validate_pin", PinFormatError(pin), GateState, pin)
            /\ UNCHANGED <<is_authenticated, page_controls>>
       ELSE IF ~verify_pin(vault, pin)
       THEN /\ on_auth_success
            /\ last' = Step("validate_pin", "valid", GateState, pin)
            /\ UNCHANGED pin_status
       ELSE /\ PinScreen_show_error("wrong")
            /\ last' = Step("validate_pin", "wrong", GateState, pin)
            /\ UNCHANGED <<is_authenticated, page_controls>>
    /\ UNCHANGED <<vault, api_client_key, validate_button_disabled, auth_status,
                   dialogs, pc, pending, issued, validated>>

\* PinScreen.validate_pin
validate_pin(pin) ==
    /\ IF PinFormatError(pin) # ""
       THEN /\ PinScreen_show_error(PinFormatError(pin))
            /\ last' = Step("validate_pin", PinFormatError(pin), GateState, pin)
            /\ UNCHANGED <<is_authenticated, page_controls>>
       ELSE IF verify_pin(vault, pin)
       THEN /\ on_auth_success
            /\ last' = Step("validate_pin", "valid", GateState, pin)
            /\ UNCHANGED pin_status
       ELSE /\ PinScreen_show_error("wrong")
            /\ last' = Step("validate_pin", "wrong", GateState, pin)
            /\ UNCHANGED <<is_authenticated, page_controls>>
    /\ UNCHANGED <<vault, api_client_key, validate_button_disabled, auth_status,
                   dialogs, pc, pending, issued, validated>>

\* PinScreen.confirm_reset_api_key: the confirmation dialog is opened.
confirm_reset_api_key ==
    /\ dialogs' = Append(dialogs, [kind |-> "reset", pin |-> NoPin, open |-> TRUE])
    /\ last' = Step("confirm_reset_api_key", "", GateState, NoPin)
    /\ UNCHANGED <<vault, is_authenticated, page_controls, api_client_key,
                   validate_button_disabled, auth_status, pin_status, pc, pending,
                   issued, validated>>

\* PinScreen.confirm_reset_api_key.close_dialog, the handler of "cancel".
reset_dialog_close(dlg) ==
    /\ dialogs' = [dialogs EXCEPT ![dlg].open = FALSE]
    /\ last' = Step("reset_cancel", "", GateState, NoPin)
    /\ UNCHANGED <<vault, is_authenticated, page_controls, api_client_key,
                   validate_button_disabled, auth_status, pin_status, pc, pending,
                   issued, validated>>

\* reset_confirmed that forgets to wipe the vault.
reset_confirmed_no_wipe(dlg) ==
    /\ vault' = vault
    /\ validated' = validated
    /\ dialogs' = [dialogs EXCEPT ![dlg].open = FALSE]
    /\ on_reset_api_key
    /\ last' = Step("reset_confirmed", "", GateState, NoPin)
    /\ UNCHANGED <<api_client_key, pin_status, pc, pending, issued>>

\* PinScreen.confirm_reset_api_key.reset_confirmed, the handler of "reset".
reset_confirmed(dlg) ==
    /\ vault' = reset(vault)
    /\ validated' = FALSE
    /\ dialogs' = [dialogs EXCEPT ![dlg].open = FALSE]
    /\ on_reset_api_key
    /\ last' = Step("reset_confirmed", "", GateState, NoPin)
    /\ UNCHANGED <<api_client_key, pin_status, pc, pending, issued>>

\* ---------------------------------------------------------------- handlers
HandleValidateApiKey ==
    /\ Dispatch("validate_api_key")
    /\ page_controls = "auth"
    /\ validate_api_key(Head(events).key)

GetBalanceReturns ==
    /\ pc = "validating"
    /\ \E balance \in get_balance(pending.api_key), pin \in PinPool,
          saved \in StoreResults :
            validate_api_key_returns(balance, pin, saved)
    /\ UNCHANGED events

HandleAcknowledge ==
    /\ Dispatch("acknowledge")
    /\ pin_dialog_close(Head(events).dlg)

HandleValidatePin ==
    /\ Dispatch("validate_pin")
    /\ page_controls = "pin"
    /\ validate_pin(Head(events).pin)

HandleConfirmReset ==
    /\ Dispatch("confirm_reset_api_key")
    /\ page_controls = "pin"
    /\ confirm_reset_api_key

HandleResetCancel ==
    /\ Dispatch("reset_cancel")
    /\ reset_dialog_close(Head(events).dlg)

HandleResetConfirmed ==
    /\ Dispatch("reset_confirmed")
    /\ reset_confirmed(Head(events).dlg)

Next ==
    \/ Launch /\ UNCHANGED chat_vars
    \/ ClickValidateKey /\ UNCHANGED chat_vars
    \/ ClickValidatePin /\ UNCHANGED chat_vars
    \/ ClickReset /\ UNCHANGED chat_vars
    \/ ClickAcknowledge /\ UNCHANGED chat_vars
    \/ ClickResetCancel /\ UNCHANGED chat_vars
    \/ ClickResetConfirm /\ UNCHANGED chat_vars
    \/ DropStaleEvent /\ UNCHANGED chat_vars
    \/ HandleValidateApiKey /\ UNCHANGED chat_vars
    \/ GetBalanceReturns /\ UNCHANGED chat_vars
    \/ HandleAcknowledge /\ UNCHANGED chat_vars
    \/ HandleValidatePin /\ UNCHANGED chat_vars
    \/ HandleConfirmReset /\ UNCHANGED chat_vars
    \/ HandleResetCancel /\ UNCHANGED chat_vars
    \/ HandleResetConfirmed /\ UNCHANGED chat_vars

\* The session gate: launch, key entry, PIN entry and reset.
Spec == Init /\ [][Next]_all_vars

\* ================================================================== claims

\* C1: is_authenticated becomes true only by the acknowledgement of a PIN
\* dialog in state PinIssued, with a validated credential in the vault, or by
\* a PIN submitted in state Locked that the vault verifies; PinIssued is
\* entered only from PendingValidation, and PendingValidation only by a
\* submitted key in NoCredential (or in PinIssued, when a second click on the
\* button was already in flight).
C1_AuthenticatedOnlyViaGate ==
    [][ /\ (~is_authenticated /\ is_authenticated') =>
              \/ /\ GateState = "PinIssued"
                 /\ last'.op = "acknowledge"
                 /\ has_credential(vault)
                 /\ validated
              \/ /\ GateState = "Locked"
                 /\ last'.op = "validate_pin"
                 /\ verify_pin(vault, last'.pin)
        /\ (GateState # "PinIssued" /\ GateState' = "PinIssued") =>
              /\ GateState = "PendingValidation"
              /\ has_credential(vault')
              /\ validated'
        /\ (GateState # "PendingValidation" /\ GateState' = "PendingValidation") =>
              /\ GateState \in {"NoCredential", "PinIssued"}
              /\ last'.op = "validate_api_key"
      ]_vars

C1_Witness ==
    /\ is_authenticated
    /\ last.op = "acknowledge"
    /\ last.from = "PinIssued"
    /\ has_credential(vault)

\* C2: while a record is stored, a candidate PIN verifies iff it is the PIN of
\* the most recent successful store, and validate_pin lets a well-formed PIN
\* in iff it is that PIN.
C2_VerifyIffLastStoredPin ==
    has_credential(vault) =>
        /\ issued.present
        /\ \A p \in PinInputs : verify_pin(vault, p) <=> p = issued.pin
        /\ last.op = "validate_pin" =>
              (last.result = "valid" <=> last.pin = issued.pin)

\* A second store has overwritten the record of a first one with another PIN.
C2_Witness ==
    /\ has_credential(vault)
    /\ \E i, j \in 1..Len(dialogs) :
          /\ i < j
          /\ dialogs[i].kind = "pin"
          /\ dialogs[j].kind = "pin"
          /\ dialogs[i].pin # dialogs[j].pin
          /\ ~verify_pin(vault, dialogs[i].pin)
          /\ verify_pin(vault, dialogs[j].pin)

\* C3: right after a confirmed reset the vault has no credential, right after
\* a successful store it has one.
C3_HasCredentialAfterResetAndStore ==
    /\ last.op = "reset_confirmed" => ~has_credential(vault)
    /\ (last.op = "validate_api_key_returns" /\ last.result = "stored") =>
          has_credential(vault)

\* A store that follows a reset in the same session.
C3_Witness ==
    /\ last.op = "validate_api_key_returns"
    /\ last.result = "stored"
    /\ has_credential(vault)
    /\ \E i \in 1..Len(dialogs) : dialogs[i].kind = "reset" /\ ~dialogs[i].open

\* C4: a store that fails leaves the vault as it was, and the record in the
\* vault is always the key and the PIN of one and the same store.
C4_StoreAtomic ==
    /\ [](has_credential(vault) => vault = Record(issued.api_key, issued.pin))
    /\ [][ (last'.op = "validate_api_key_returns"
            /\ last'.result \in {"save failed", "exception"}) =>
              vault' = vault ]_vars

\* A store failed while an earlier record was in the vault.
C4_Witness ==
    /\ last.op = "validate_api_key_returns"
    /\ last.result = "save failed"
    /\ last.from = "PinIssued"
    /\ has_credential(vault)

\* C5: the vault holds a record iff a key the API accepted was stored since
\* the last reset.
C5_RecordIffValidated == has_credential(vault) <=> validated

\* A validation that raised, and nothing was stored.
C5_Witness ==
    /\ last.op = "validate_api_key_returns"
    /\ last.result = "exception"
    /\ ~has_credential(vault)
    /\ ~validated

\* C6: a submitted key that is empty, rejected, not saved or whose check raises
\* leaves the vault and the dialogs as they were, puts the session back into
\* the state the handler began in (NoCredential, unless a PIN dialog of an
\* earlier submit is open), shows an error and enables the button again.
C6_FailedSubmitDoesNotAdvance ==
    /\ []( ( \/ (last.op = "validate_api_key_returns" /\ last.result # "stored")
             \/ (last.op = "validate_api_key" /\ last.result = "empty key") ) =>
              /\ GateState = last.from
              /\ last.from = "NoCredential" => OpenDialogs("pin") = {}
              /\ page_controls = "auth"
              /\ pc = "idle"
              /\ ~validate_button_disabled
              /\ auth_status \in AuthErrors )
    /\ [][ ( \/ (last'.op = "validate_api_key_returns" /\ last'.result # "stored")
             \/ (last'.op = "validate_api_key" /\ last'.result = "empty key") ) =>
              /\ vault' = vault
              /\ dialogs' = dialogs ]_vars

C6_Witness ==
    /\ last.op = "validate_api_key_returns"
    /\ last.result = "invalid key"
    /\ last.from = "NoCredential"
    /\ GateState = "NoCredential"
    /\ ~validate_button_disabled

\* The memory of the PIN screen that validate_pin writes.
PinScreenMemory == <<pin_status>>

\* C7 as stated: every well-formed PIN the vault rejects increments a failure
\* counter, so the memory of the PIN screen differs after it.
C7_FailureCounterIncremented ==
    [][ ( /\ HandleValidatePin
          /\ PinFormatError(Head(events).pin) = ""
          /\ ~verify_pin(vault, Head(events).pin) ) =>
            PinScreenMemory' # PinScreenMemory ]_vars

\* C7 as amended: a PIN handled in state Locked authenticates exactly when the
\* vault verifies it, whatever was entered before; otherwise the session stays
\* Locked, the vault is untouched and an error message is shown.
C7_SubmitPin ==
    [][ HandleValidatePin =>
          /\ GateState = "Locked"
          /\ IF verify_pin(vault, Head(events).pin)
             THEN GateState' = "Authenticated"
             ELSE /\ GateState' = "Locked"
                  /\ pin_status' \in {"empty", "length", "digits", "wrong"}
                  /\ vault' = vault ]_vars

\* The right PIN was accepted after a wrong one.
C7_Witness ==
    /\ is_authenticated
    /\ last.op = "validate_pin"
    /\ last.result = "valid"
    /\ pin_status = "wrong"

\* C8: after a launch the session is Locked iff the vault has a credential,
\* NoCredential otherwise, and not authenticated.
C8_InitialState ==
    last.op = "launch" =>
        /\ ~is_authenticated
        /\ GateState = (IF has_credential(vault) THEN "Locked" ELSE "NoCredential")

\* A relaunch of an authenticated session with a stored credential.
C8_Witness ==
    /\ last.op = "launch"
    /\ last.from = "Authenticated"
    /\ has_credential(vault)
    /\ GateState = "Locked"

\* C9 as stated: reset_auth_data runs only in state Locked and leaves the
\* session in NoCredential without a credential; a cancelled confirmation
\* changes neither the session state nor the vault.
C9_ResetOnlyFromLocked ==
    [][ /\ HandleResetConfirmed =>
              /\ GateState = "Locked"
              /\ GateState' = "NoCredential"
              /\ ~has_credential(vault')
        /\ HandleResetCancel =>
              /\ GateState' = GateState
              /\ vault' = vault ]_vars

\* C10 as stated: once authenticated, the session stays authenticated until
\* the process is started again.
C10_AuthenticatedTerminal ==
    [][ (is_authenticated /\ last'.op # "launch") => is_authenticated' ]_vars

\* C20 as stated: a validation attempt that does not end in a stored
\* credential leaves api_client.api_key as it was before the attempt.
C20_ClientKeyRestored ==
    [][ (last'.op = "validate_api_key_returns" /\ last'.result # "stored") =>
            api_client_key' = pending.original_key ]_vars

\* ======================================================================
\* The chat screen: transcript store, export and analytics
\* ======================================================================

\* ------------------------------------------------------------------ bounds
MaxAppends == 3                \* entries appended over all sessions
MaxSends == 2                  \* send_message calls awaiting a response

\* ------------------------------------------------------------------- texts
\* A text is a sequence of characters, one string per character; a character
\* outside ASCII is written by its code point.
NoText == << >>

\* message_input.value when the send button is pressed: nothing, or a text
\* with a quote, a backslash and a non-ASCII letter.
MessageInputs == { NoText, <<"h", "\"", "\\", "U+00E9">> }

\* The prefix send_message puts before an API error ("Ошибка: " in the
\* source).
ErrorPrefix == <<"E", "r", "r", ":", " ">>

\* What api_client.send_message can come back with: a completion with or
\* without a usage block, an error description, a payload that has neither
\* "error" nor "choices", or an exception.
NoUsage == -1

Response(kind, text, usage) == [kind |-> kind, text |-> text, usage |-> usage]

Responses ==
    { Response("payload", <<"o", "k">>, 10),
      Response("payload", <<"y", "e", "s">>, 25),
      Response("payload", <<"o", "k">>, NoUsage),
      Response("error", <<"4", "0", "1">>, NoUsage),
      Response("malformed", NoText, NoUsage),
      Response("raise", NoText, NoUsage) }

\* ----------------------------------------------------------- decimal digits
DigitChar(d) == <<"0", "1", "2", "3", "4", "5", "6", "7", "8", "9">>[d + 1]

DigitValue(c) == CHOOSE d \in 0..9 : DigitChar(d) = c

IsDigit(c) == \E d \in 0..9 : DigitChar(d) = c

\* str(n) of a non-negative int.
RECURSIVE Decimal(_)
Decimal(n) ==
    IF n < 10 THEN <<DigitChar(n)>>
    ELSE Decimal(n \div 10) \o <<DigitChar(n % 10)>>

\* int(text) of a digit string.
RECURSIVE ParseDecimal(_)
ParseDecimal(text) ==
    IF Len(text) = 1 THEN DigitValue(text[1])
    ELSE 10 * ParseDecimal(SubSeq(text, 1, Len(text) - 1))
         + DigitValue(text[Len(text)])

\* ------------------------------------------------------ the transcript store
\* A row of the store as get_chat_history returns it: (id, model,
\* user_message, ai_response, timestamp, tokens).
Entry(id, model, user_message, ai_response, timestamp, tokens) ==
    [id |-> id, model |-> model, user_message |-> user_message,
     ai_response |-> ai_response, timestamp |-> timestamp, tokens |-> tokens]

\* The time the store stamps on the entry with this id, as a string; one
\* stamp per append, growing with the order of the appends.
Stamp(id) == <<"T">> \o Decimal(id)

\* append: the next sequence id, the current time, the entry at the end.
ChatCache_save_message_reused_id(t, id, model, user_message, ai_response, tokens_used) ==
    Append(t, Entry(Len(t) + 1, model, user_message, ai_response,
                    Stamp(Len(t) + 1), tokens_used))

ChatCache_save_message(t, id, model, user_message, ai_response, tokens_used) ==
    Append(t, Entry(id, model, user_message, ai_response, Stamp(id),
                    tokens_used))

\* read_all: the entries in insertion order.
ChatCache_get_chat_history(t) == t

\* clear: all entries removed at once.
ChatCache_clear_history(t) == << >>

\* ------------------------------------------------------------------ export
\* A value as Python and JSON know it: a string or an integer.
TStr(text) == [tag |-> "str", text |-> text, n |-> 0]

TInt(n) == [tag |-> "int", text |-> NoText, n |-> n]

\* str(v): a string is returned as it is, an integer in decimal digits.
py_str(v) == IF v.tag = "str" THEN v ELSE TStr(Decimal(v.n))

ExportFields == {"timestamp", "model", "user_message", "ai_response", "tokens"}

\* The dictionary save_dialog builds from one row.
save_dialog_record_tokens_as_text(msg) ==
    [timestamp |-> py_str(TStr(msg.timestamp)),
     model |-> TStr(msg.model),
     user_message |-> TStr(msg.user_message),
     ai_response |-> TStr(msg.ai_response),
     tokens |-> py_str(TInt(msg.tokens))]

save_dialog_record(msg) ==
    [timestamp |-> py_str(TStr(msg.timestamp)),
     model |-> TStr(msg.model),
     user_message |-> TStr(msg.user_message),
     ai_response |-> TStr(msg.ai_response),
     tokens |-> TInt(msg.tokens)]

\* The characters of a JSON string literal: a quote and a backslash get a
\* backslash before them; ensure_ascii=False leaves every other character.
RECURSIVE json_escape(_)
json_escape(text) ==
    IF text = << >> THEN << >>
    ELSE (IF Head(text) \in {"\"", "\\"} THEN <<"\\", Head(text)>>
          ELSE <<Head(text)>>) \o json_escape(Tail(text))

RECURSIVE json_unescape(_)
json_unescape(chars) ==
    IF chars = << >> THEN << >>
    ELSE IF Head(chars) = "\\"
         THEN <<chars[2]>> \o json_unescape(SubSeq(chars, 3, Len(chars)))
         ELSE <<Head(chars)>> \o json_unescape(Tail(chars))

\* json.dump of one value, and the value a JSON parser reads back from it.
json_encode(v) ==
    IF v.tag = "str" THEN <<"\"">> \o json_escape(v.text) \o <<"\"">>
    ELSE Decimal(v.n)

json_decode(chars) ==
    IF Head(chars) = "\"" THEN TStr(json_unescape(SubSeq(chars, 2, Len(chars) - 1)))
    ELSE TInt(ParseDecimal(chars))

\* json.dump(dialog_data, f, ensure_ascii=False, indent=4): the document, one
\* object per record, and the records a parser reads back from the document.
json_dump(dialog_data) ==
    [i \in 1..Len(dialog_data) |->
        [f \in ExportFields |-> json_encode(dialog_data[i][f])]]

json_load(document) ==
    [i \in 1..Len(document) |->
        [f \in ExportFields |-> json_decode(document[i][f])]]

\* ---------------------------------------------------------------- analytics
RECURSIVE SumTokens(_)
SumTokens(entries) ==
    IF entries = << >> THEN 0
    ELSE Head(entries).tokens + SumTokens(Tail(entries))

\* aggregate(entries): the counters of a transcript snapshot; the average is
\* kept as the exact quotient num / den, 0 for the empty snapshot.
Analytics_get_statistics(entries) ==
    [total_messages |-> Len(entries),
     total_tokens |-> SumTokens(entries),
     tokens_per_message |->
        IF Len(entries) = 0 THEN [num |-> 0, den |-> 1]
        ELSE [num |-> SumTokens(entries), den |-> Len(entries)]]

\* The hundredths f"{x:.2f}" prints for x = num / den: the nearest hundredth,
\* the even one when two are equally near.
Hundredths_truncated(x) == (100 * x.num) \div x.den

Hundredths(x) ==
    LET q == (100 * x.num) \div x.den
        r == (100 * x.num) % x.den
    IN  IF 2 * r > x.den THEN q + 1
        ELSE IF 2 * r = x.den THEN q + (q % 2)
        ELSE q

Format2f(x) ==
    LET h == Hundredths(x)
    IN  Decimal(h \div 100) \o <<".", DigitChar((h \div 10) % 10), DigitChar(h % 10)>>

\* ------------------------------------------------------------ chat history
MessageBubble(message, is_user) == [message |-> message, is_user |-> is_user]

reversed(history) ==
    [i \in 1..Len(history) |-> history[Len(history) + 1 - i]]

\* The bubbles load_chat_history puts into chat_history.controls.
load_chat_history_unreversed(history) ==
    [k \in 1..(2 * Len(history)) |->
        IF k % 2 = 1 THEN MessageBubble(history[(k + 1) \div 2].user_message, TRUE)
        ELSE MessageBubble(history[k \div 2].ai_response, FALSE)]

load_chat_history(history) ==
    load_chat_history_unreversed(reversed(history))

\* ------------------------------------------------------------ send_message
RemoveAt(s, i) == SubSeq(s, 1, i - 1) \o SubSeq(s, i + 1, Len(s))

\* The model of a request the worker has not yet taken up.
NoModel == << >>

\* send_message up to the await: nothing is done for an empty message; the
\* request is handed to a worker of the executor.
send_message(message) ==
    /\ Len(sends) < MaxSends
    /\ next_id + Len(sends) <= MaxAppends
    /\ IF message = NoText
       THEN /\ chat_last' = ChatStep("send_message", "empty", 0, << >>)
            /\ UNCHANGED sends
       ELSE /\ sends' = Append(sends, [user_message |-> message,
                                       model |-> NoModel])
            /\ chat_last' = ChatStep("send_message", "sent", 0, << >>)
    /\ UNCHANGED <<transcript, next_id, assigned, model_dropdown_value>>

\* The worker runs the lambda: the request goes out with the model the
\* dropdown holds when the worker reads it.
api_client_send_message(i) ==
    /\ sends[i].model = NoModel
    /\ sends' = [sends EXCEPT ![i].model = model_dropdown_value]
    /\ chat_last' = ChatStep("api_client_send_message", "requested", 0, << >>)
    /\ UNCHANGED <<transcript, next_id, assigned, model_dropdown_value>>

\* The text and the token count send_message takes from the response.
response_text_raw(response) == response.text

response_text(response) ==
    IF response.kind = "error" THEN ErrorPrefix \o response.text
    ELSE response.text

tokens_used(response) ==
    IF response.kind = "error" THEN 0
    ELSE IF response.usage = NoUsage THEN 0
    ELSE response.usage

\* send_message after the await: the response is read, the turn is saved
\* with the model selected now; an exception of the API call, of reading the
\* payload or of save_message ends in the except branch, which only reports.
send_message_returns(i, response, saved) ==
    LET turn == sends[i]
        read == response.kind \in {"payload", "error"}
        stored == read /\ saved = "ok"
        result == IF response.kind = "raise" THEN "api raised"
                  ELSE IF ~read THEN "payload unreadable"
                  ELSE IF saved = "ok" THEN "saved"
                  ELSE "save failed"
    IN  /\ turn.model # NoModel
        /\ sends' = RemoveAt(sends, i)
        /\ transcript' =
              IF stored
              THEN ChatCache_save_message(transcript, next_id,
                       model_dropdown_value, turn.user_message,
                       response_text(response), tokens_used(response))
              ELSE transcript
        /\ next_id' = IF stored THEN next_id + 1 ELSE next_id
        /\ assigned' = IF stored
                       THEN assigned \cup {transcript'[Len(transcript')].id}
                       ELSE assigned
        /\ chat_last' = ChatStep("send_message_returns", result,
                                 IF stored THEN next_id ELSE 0,
                                 <<[turn |-> turn, response |-> response]>>)
        /\ UNCHANGED model_dropdown_value

\* ----------------------------------------------------------- clear_history
clear_history_keeps_store(result) ==
    /\ chat_last' = ChatStep("clear_history", result, 0, << >>)
    /\ UNCHANGED <<transcript, next_id, assigned, model_dropdown_value, sends>>

\* The confirmed clear: the store is emptied, or cache.clear_history raises
\* and the store stays as it was.
clear_history(result) ==
    /\ transcript' = IF result = "ok" THEN ChatCache_clear_history(transcript)
                     ELSE transcript
    /\ chat_last' = ChatStep("clear_history", result, 0, << >>)
    /\ UNCHANGED <<next_id, assigned, model_dropdown_value, sends>>

\* ------------------------------------------------------------- save_dialog
save_dialog_drops_exported(written) ==
    /\ transcript' = IF written = "ok" THEN << >> ELSE transcript
    /\ chat_last' = ChatStep("save_dialog", written, 0, << >>)
    /\ UNCHANGED <<next_id, assigned, model_dropdown_value, sends>>

\* The history is read, turned into records and written as one document;
\* nothing is written when opening the file or dumping raises.
save_dialog(written) ==
    LET history == ChatCache_get_chat_history(transcript)
        dialog_data == [i \in 1..Len(history) |-> save_dialog_record(history[i])]
    IN  /\ chat_last' = ChatStep("save_dialog", written, 0,
                                 IF written = "ok" THEN json_dump(dialog_data)
                                 ELSE << >>)
        /\ UNCHANGED <<transcript, next_id, assigned, model_dropdown_value, sends>>

\* ---------------------------------------------------------- show_analytics
show_analytics ==
    LET stats == Analytics_get_statistics(ChatCache_get_chat_history(transcript))
    IN  /\ chat_last' = ChatStep("show_analytics", "ok", 0,
                                 <<Decimal(stats.total_messages),
                                   Decimal(stats.total_tokens),
                                   Format2f(stats.tokens_per_message)>>)
        /\ UNCHANGED <<transcript, next_id, assigned, model_dropdown_value, sends>>

\* ------------------------------------------------- the rest of the screen
\* The user picks a model in the dropdown.
ModelSelector_select(model) ==
    /\ model_dropdown_value' = model
    /\ chat_last' = ChatStep("select_model", "ok", 0, << >>)
    /\ UNCHANGED <<transcript, next_id, assigned, sends>>

\* The application is closed, started again and unlocked: the main screen is
\* built anew, the first model is selected and the stored history is loaded;
\* the requests of the old process are gone.
initialize_main_interface ==
    /\ model_dropdown_value' = Models[1]
    /\ sends' = << >>
    /\ chat_last' = ChatStep("load_chat_history", "ok", 0,
                             load_chat_history(ChatCache_get_chat_history(transcript)))
    /\ UNCHANGED <<transcript, next_id, assigned>>

\* ------------------------------------------------- the chat specification
\* The session after a stored credential was unlocked with its PIN: the gate
\* stays Authenticated on the main screen while the chat screen is used.
ChatInit ==
    /\ vault = Record("sk-test", <<"4", "8", "2", "1">>)
    /\ is_authenticated = TRUE
    /\ page_controls = "main"
    /\ api_client_key = NoKey
    /\ validate_button_disabled = FALSE
    /\ auth_status = ""
    /\ pin_status = ""
    /\ dialogs = << >>
    /\ events = << >>
    /\ pc = "idle"
    /\ pending = NoPending
    /\ last = Step("validate_pin", "valid", "Locked", <<"4", "8", "2", "1">>)
    /\ issued = [present |-> TRUE, api_key |-> "sk-test", pin |-> <<"4", "8", "2", "1">>]
    /\ validated = TRUE
    /\ ChatIdle

SendMessage == \E message \in MessageInputs : send_message(message)

SendMessageReturns ==
    \E i \in 1..Len(sends), response \in Responses, saved \in {"ok", "raise"} :
        send_message_returns(i, response, saved)

WorkerSendsRequest == \E i \in 1..Len(sends) : api_client_send_message(i)

ClearHistory == \E result \in {"ok", "raise"} : clear_history(result)

SaveDialog == \E written \in {"ok", "raise"} : save_dialog(written)

ShowAnalytics == show_analytics

SelectModel ==
    \E k \in 1..Len(Models) : ModelSelector_select(Models[k])

Relaunch == initialize_main_interface

ChatNext ==
    \/ SendMessage /\ UNCHANGED vars
    \/ WorkerSendsRequest /\ UNCHANGED vars
    \/ SendMessageReturns /\ UNCHANGED vars
    \/ ClearHistory /\ UNCHANGED vars
    \/ SaveDialog /\ UNCHANGED vars
    \/ ShowAnalytics /\ UNCHANGED vars
    \/ SelectModel /\ UNCHANGED vars
    \/ Relaunch /\ UNCHANGED vars

SpecChat == ChatInit /\ [][ChatNext]_all_vars

\* ======================================================================
\* The transcript claims
\* ======================================================================
\* The last step stored a turn / the id and the entry it stored.
Saved(step) == step.op = "send_message_returns" /\ step.result = "saved"

IsPrefix(s, t) == Len(s) <= Len(t) /\ SubSeq(t, 1, Len(s)) = s

\* C11: of two entries appended one after the other the later has the greater
\* sequence id, and an id is never given to two entries, also when the store
\* was cleared between the appends.
C11_SequenceIdsIncrease ==
    [][ Saved(chat_last') /\ Len(transcript') = Len(transcript) + 1 =>
            LET new == transcript'[Len(transcript')].id
            IN  /\ new \notin assigned
                /\ \A old \in assigned : old < new
                /\ \A k \in 1..Len(transcript) : transcript[k].id < new ]_all_vars

\* An entry was appended after an earlier one was appended and cleared.
C11_Witness ==
    /\ Saved(chat_last)
    /\ Len(transcript) = 1
    /\ transcript[1].id = 3
    /\ assigned = {1, 2, 3}

\* C12: a successful clear leaves read_all empty, a clear followed by one
\* append leaves exactly the appended entry, and a clear never leaves a part
\* of the entries behind.
C12_ClearEmptiesStore ==
    [][ /\ (chat_last'.op = "clear_history" /\ chat_last'.result = "ok") =>
               ChatCache_get_chat_history(transcript') = << >>
        /\ chat_last'.op = "clear_history" =>
               ChatCache_get_chat_history(transcript') \in {<< >>, transcript}
        /\ (chat_last.op = "clear_history" /\ chat_last.result = "ok"
            /\ Saved(chat_last')) =>
               LET after == ChatCache_get_chat_history(transcript')
                   sent == chat_last'.out[1]
               IN  /\ Len(after) = 1
                   /\ after[1].id = chat_last'.id
                   /\ after[1].user_message = sent.turn.user_message ]_all_vars

\* One entry was appended right after a clear of a store that held entries.
C12_Witness ==
    /\ Saved(chat_last)
    /\ Len(transcript) = 1
    /\ transcript[1].id = 2
    /\ sends = << >>

\* C13: across every step but a clear, what read_all returned before is a
\* prefix of what it returns after, entries unchanged; export, analytics and
\* loading the history leave the store as it is.
C13_AppendOnly ==
    [][ /\ chat_last'.op # "clear_history" =>
               IsPrefix(ChatCache_get_chat_history(transcript),
                        ChatCache_get_chat_history(transcript'))
        /\ chat_last'.op \in {"save_dialog", "show_analytics", "load_chat_history"} =>
               transcript' = transcript ]_all_vars

\* The history was exported while two entries were stored.
C13_Witness ==
    /\ chat_last.op = "save_dialog"
    /\ chat_last.result = "ok"
    /\ Len(transcript) = 2

\* The response a finished send_message had received.
ErrorReturned(step) ==
    step.op = "send_message_returns" /\ step.out[1].response.kind = "error"

\* C14 as stated: the turn of an API error is stored with the raw error text
\* as its response.
C14_RawErrorText ==
    [][ (ErrorReturned(chat_last') /\ Saved(chat_last')
         /\ Len(transcript') = Len(transcript) + 1) =>
            LET new == transcript'[Len(transcript')]
            IN  /\ new.tokens = 0
                /\ new.ai_response = chat_last'.out[1].response.text ]_all_vars

\* C14, amended: on an API error the turn is appended whenever the store takes
\* the write, with tokens = 0 and as response the error text behind the
\* prefix send_message puts before it; a refused write leaves the store as it
\* was.
C14_ErrorTurnStored ==
    [][ ErrorReturned(chat_last') =>
            LET sent == chat_last'.out[1]
            IN  IF chat_last'.result = "saved"
                THEN /\ Len(transcript') = Len(transcript) + 1
                     /\ IsPrefix(transcript, transcript')
                     /\ LET new == transcript'[Len(transcript')]
                        IN  /\ new.tokens = 0
                            /\ new.ai_response = ErrorPrefix \o sent.response.text
                            /\ new.user_message = sent.turn.user_message
                            /\ new.id = chat_last'.id
                ELSE /\ chat_last'.result = "save failed"
                     /\ transcript' = transcript ]_all_vars

\* The turn of an API error was stored.
C14_Witness ==
    /\ ErrorReturned(chat_last)
    /\ Saved(chat_last)
    /\ transcript # << >>
    /\ transcript[Len(transcript)].id = chat_last.id
    /\ transcript[Len(transcript)].tokens = 0

\* C15 as stated: once the API has returned a response, payload or error, an
\* entry for the turn is persisted.
C15_ResponseIsPersisted ==
    (chat_last.op = "send_message_returns" /\ chat_last.result # "api raised") =>
        /\ chat_last.id # 0
        /\ \E k \in 1..Len(transcript) : transcript[k].id = chat_last.id

\* The five exported fields of a stored entry, as values of their types.
ExportedFieldsOf(e) ==
    [timestamp |-> TStr(e.timestamp), model |-> TStr(e.model),
     user_message |-> TStr(e.user_message), ai_response |-> TStr(e.ai_response),
     tokens |-> TInt(e.tokens)]

\* C17: the records written by an export and parsed back are as many as the
\* entries read_all returns, in the same order and equal to them field for
\* field, and the export leaves the store unchanged.
C17_ExportRoundTrip ==
    [][ chat_last'.op = "save_dialog" =>
            /\ transcript' = transcript
            /\ chat_last'.result = "ok" =>
                   LET entries == ChatCache_get_chat_history(transcript)
                       parsed == json_load(chat_last'.out)
                   IN  /\ Len(parsed) = Len(entries)
                       /\ \A i \in 1..Len(entries) :
                              parsed[i] = ExportedFieldsOf(entries[i]) ]_all_vars

\* Two turns were exported: one with two-digit tokens, one with an error
\* response, the message holding a quote, a backslash and a non-ASCII letter.
C17_Witness ==
    /\ chat_last.op = "save_dialog"
    /\ chat_last.result = "ok"
    /\ Len(transcript) = 2
    /\ Len(chat_last.out) = 2
    /\ transcript[1].tokens = 25
    /\ transcript[2].tokens = 0
    /\ "\"" \in {transcript[1].user_message[k] : k \in 1..Len(transcript[1].user_message)}

C21_RecordedModelIsSentModel ==
    Saved(chat_last) =>
        \A k \in 1..Len(transcript) :
            transcript[k].id = chat_last.id =>
                transcript[k].model = chat_last.out[1].turn.model

====
